---- MODULE Spec2Model ----
(***************************************************************************)
(* A state-machine model of kernel/virtiogpu.c: the virtio-mmio handshake  *)
(* of init_virtiogpu, the five spin-waited bring-up commands, the          *)
(* sleep-waited process-context commands transfer_fb_us and                *)
(* flush_resource_us, the completion handler virtiogpu_isr, the            *)
(* framebuffer ownership calls acquire_fb / release_fb / holds_fb, and the *)
(* device on the other side of the virtqueue.                              *)
(***************************************************************************)
EXTENDS Integers, Sequences, FiniteSets, TLC

(***************************************************************************)
(* Bounds of the model.                                                    *)
(***************************************************************************)
\* number of processes that issue system calls
NumProcs == 2
\* cap on avail->idx: no request is started once this many were published
MaxSubmit == 9
\* cap on the configuration-change interrupts the device raises
MaxCfgIrq == 1

(***************************************************************************)
(* Program constants.                                                      *)
(***************************************************************************)
\* ring size (virtio.h; "it asks for 8")
NUM == 8
\* locked_pid when nobody owns the framebuffer
NOT_LOCKED == -1
\* magic value the driver stores in response before each submission
RESP_SENTINEL == 42
\* VIRTIO_GPU_RESP_OK_NODATA (0x1100)
VIRTIO_GPU_RESP_OK_NODATA == 4352
\* an error response of the device, VIRTIO_GPU_RESP_ERR_UNSPEC (0x1200)
RESP_ERR == 4608
\* expected MMIO version and device id
VERSION_EXPECTED == 2
DEVICE_ID_GPU == 16

\* pids of the processes: 10, 20, ...
Pid(i) == 10 * i
Pids == {Pid(i) : i \in 1..NumProcs}
\* the two processes of the hand-off scenario
PidA == Pid(1)
PidB == Pid(2)

\* the name under which a process holds gpulock
Holder(p) == ToString(p)

\* the order in which init_virtiogpu issues the bring-up commands
BringUpCmds == <<"createreq", "attachreq", "scanoutreq", "transreq", "flushreq">>

VARIABLES
    dev,            \* what the device's registers and the allocator answer
    cyclic,         \* TRUE when the run is unbounded: the ring cursors are kept
                    \* modulo IdxCycle and the slot logs are not recorded
    ipc,            \* position of init_virtiogpu
    icmd,           \* index of the bring-up command being issued (0: none yet)
    status,         \* init_virtiogpu's local variable status (set of bits)
    status_writes,  \* values written to VIRTIO_MMIO_STATUS, in order
    mmio,           \* registers written by the handshake, in order
    allocated,      \* desc, avail and used were allocated and zeroed
    intena,         \* interrupts are enabled on the boot hart
    panicked,       \* message of the panic that was raised, or "none"
    gpulock,        \* holder of gpulock: "none", "init", "isr" or a pid
    request_inflight,
    response,
    desc,           \* desc[0] and desc[1]
    avail_idx,      \* avail->idx
    used,           \* used->idx and used->ring[i].id, written by the device
    used_idx,       \* the driver's cursor into the used ring
    intstatus,      \* VIRTIO_MMIO_INTERRUPT_STATUS: subset of {"USED","CONFIG"}
    cfgirqs,        \* configuration-change interrupts raised so far
    isr_pc,         \* position of virtiogpu_isr
    isr_n,          \* entries drained by the running handler
    pc,             \* position of each process
    kind,           \* request of a process inside transfer_fb_us / flush_resource_us
    my_idx,         \* per pid: avail->idx as its own submission left it (0: none)
    locked_pid,
    grants,         \* per pid: acquire_fb calls granted in a row since its last denial or release_fb (counted up to 2)
    scen,           \* progress of the two-process hand-off scenario
    avail_slots,    \* avail->ring slots written, in order
    used_slots,     \* used->ring slots read by the handler, in order
    dev_slots       \* used->ring slots written by the device, in order

hsvars   == <<dev, cyclic, ipc, icmd, status, status_writes, mmio, allocated, intena>>
ringvars == <<request_inflight, response, desc, avail_idx, used, used_idx>>
devvars  == <<intstatus, cfgirqs>>
isrvars  == <<isr_pc, isr_n>>
fbvars   == <<locked_pid, grants, scen>>
logvars  == <<avail_slots, used_slots, dev_slots>>
vars == <<hsvars, panicked, gpulock, ringvars, devvars, isrvars, pc, kind, my_idx, fbvars, logvars>>

(***************************************************************************)
(* Initial state: the globals as the C initialisers leave them, and one    *)
(* choice of what the device and the page allocator will answer.           *)
(***************************************************************************)
DeviceAnswers ==
    [magic_ok : BOOLEAN, version : {1, VERSION_EXPECTED}, device_id : {2, DEVICE_ID_GPU},
     features_ok : BOOLEAN, queue_ready : BOOLEAN, queue_max : {0, NUM - 1, NUM},
     kalloc_ok : BOOLEAN]

ZeroDesc == [addr |-> "null", len |-> "0", flags |-> "0", next |-> 0]

Init ==
    /\ dev \in DeviceAnswers
    /\ cyclic = FALSE
    /\ ipc = "start"
    /\ icmd = 0
    /\ status = {}
    /\ status_writes = <<>>
    /\ mmio = <<>>
    /\ allocated = FALSE
    /\ intena = FALSE
    /\ panicked = "none"
    /\ gpulock = "none"
    /\ request_inflight = 0
    /\ response = 0
    /\ desc = <<ZeroDesc, ZeroDesc>>
    /\ avail_idx = 0
    /\ used = [idx |-> 0, ring |-> [i \in 0..(NUM - 1) |-> 0]]
    /\ used_idx = 0
    /\ intstatus = {}
    /\ cfgirqs = 0
    /\ isr_pc = "idle"
    /\ isr_n = 0
    /\ pc = [p \in Pids |-> "idle"]
    /\ kind = [p \in Pids |-> "none"]
    /\ my_idx = [p \in Pids |-> 0]
    /\ locked_pid = NOT_LOCKED
    /\ grants = [p \in Pids |-> 0]
    /\ scen = 0
    /\ avail_slots = <<>>
    /\ used_slots = <<>>
    /\ dev_slots = <<>>

(***************************************************************************)
(* init_virtiogpu: the handshake.                                          *)
(***************************************************************************)
\* panic(): the calling context prints the message and loops forever
Panic(msg) == panicked' = msg

\* the three identity checks, in the order of the code
IdentityFault(d) ==
    IF ~d.magic_ok THEN "virtio1 not a virt device"
    ELSE IF d.version # VERSION_EXPECTED THEN "virtio1 got wrong version"
    ELSE IF d.device_id # DEVICE_ID_GPU THEN "virtio1 not a GPU"
    ELSE "none"

\* a handshake that writes each status bit alone
StatusAssign(s, bit) == {bit}

\* status |= bit
StatusOr(s, bit) == s \cup {bit}

\* *V1(VIRTIO_MMIO_STATUS) = s
WriteStatus(s) ==
    /\ status_writes' = Append(status_writes, s)
    /\ mmio' = Append(mmio, "STATUS")

\* what the device returns when VIRTIO_MMIO_STATUS is read back after FEATURES_OK
StatusReadback(d, written) ==
    IF d.features_ok THEN written ELSE written \ {"FEATURES_OK"}

\* a handshake that does not look at the queue-ready register
QueueReadyIgnored(d) == FALSE

\* the queue-ready register of queue 0 is already set
QueueReadyFault(d) == d.queue_ready

\* the checks on VIRTIO_MMIO_QUEUE_NUM_MAX
QueueMaxFault(d) ==
    IF d.queue_max = 0 THEN "virtiogpu has no queue 0"
    ELSE IF d.queue_max < NUM THEN "virtiogpu max queue too short (is it really?)"
    ELSE "none"

InitStep(from, to) == ipc = from /\ panicked = "none" /\ ipc' = to

InitIdentify ==
    /\ ipc = "start" /\ panicked = "none"
    /\ IF IdentityFault(dev) # "none"
       THEN Panic(IdentityFault(dev)) /\ ipc' = ipc
       ELSE ipc' = "reset" /\ UNCHANGED panicked
    /\ UNCHANGED <<dev, cyclic, icmd, status, status_writes, mmio, allocated, intena>>
    /\ UNCHANGED <<gpulock, ringvars, devvars, isrvars, pc, kind, my_idx, fbvars, logvars>>

InitReset ==
    /\ InitStep("reset", "ack")
    /\ status' = {}
    /\ WriteStatus({})
    /\ UNCHANGED <<dev, cyclic, icmd, allocated, intena, panicked>>
    /\ UNCHANGED <<gpulock, ringvars, devvars, isrvars, pc, kind, my_idx, fbvars, logvars>>

InitAck ==
    /\ InitStep("ack", "driver")
    /\ status' = StatusOr(status, "ACKNOWLEDGE")
    /\ WriteStatus(status')
    /\ UNCHANGED <<dev, cyclic, icmd, allocated, intena, panicked>>
    /\ UNCHANGED <<gpulock, ringvars, devvars, isrvars, pc, kind, my_idx, fbvars, logvars>>

InitDriver ==
    /\ InitStep("driver", "features")
    /\ status' = StatusOr(status, "DRIVER")
    /\ WriteStatus(status')
    /\ UNCHANGED <<dev, cyclic, icmd, allocated, intena, panicked>>
    /\ UNCHANGED <<gpulock, ringvars, devvars, isrvars, pc, kind, my_idx, fbvars, logvars>>

InitFeatures ==
    /\ InitStep("features", "features_ok")
    /\ mmio' = Append(mmio, "DRIVER_FEATURES")
    /\ UNCHANGED <<dev, cyclic, icmd, status, status_writes, allocated, intena, panicked>>
    /\ UNCHANGED <<gpulock, ringvars, devvars, isrvars, pc, kind, my_idx, fbvars, logvars>>

InitFeaturesOk ==
    /\ InitStep("features_ok", "readback")
    /\ status' = StatusOr(status, "FEATURES_OK")
    /\ WriteStatus(status')
    /\ UNCHANGED <<dev, cyclic, icmd, allocated, intena, panicked>>
    /\ UNCHANGED <<gpulock, ringvars, devvars, isrvars, pc, kind, my_idx, fbvars, logvars>>

InitReadback ==
    /\ ipc = "readback" /\ panicked = "none"
    /\ status' = StatusReadback(dev, status)
    /\ IF "FEATURES_OK" \notin status'
       THEN Panic("virtiogpu FEATURES_OK balked") /\ ipc' = ipc
       ELSE ipc' = "queue_sel" /\ UNCHANGED panicked
    /\ UNCHANGED <<dev, cyclic, icmd, status_writes, mmio, allocated, intena>>
    /\ UNCHANGED <<gpulock, ringvars, devvars, isrvars, pc, kind, my_idx, fbvars, logvars>>

InitQueueSel ==
    /\ ipc = "queue_sel" /\ panicked = "none"
    /\ mmio' = Append(mmio, "QUEUE_SEL")
    /\ IF QueueReadyFault(dev)
       THEN Panic("virtiogpu should not be ready yet") /\ ipc' = ipc
       ELSE ipc' = "queue_max" /\ UNCHANGED panicked
    /\ UNCHANGED <<dev, cyclic, icmd, status, status_writes, allocated, intena>>
    /\ UNCHANGED <<gpulock, ringvars, devvars, isrvars, pc, kind, my_idx, fbvars, logvars>>

InitQueueMax ==
    /\ ipc = "queue_max" /\ panicked = "none"
    /\ IF QueueMaxFault(dev) # "none"
       THEN Panic(QueueMaxFault(dev)) /\ ipc' = ipc
       ELSE ipc' = "alloc" /\ UNCHANGED panicked
    /\ UNCHANGED <<dev, cyclic, icmd, status, status_writes, mmio, allocated, intena>>
    /\ UNCHANGED <<gpulock, ringvars, devvars, isrvars, pc, kind, my_idx, fbvars, logvars>>

InitAlloc ==
    /\ ipc = "alloc" /\ panicked = "none"
    /\ IF ~dev.kalloc_ok
       THEN Panic("virtiogpu kalloc") /\ ipc' = ipc /\ UNCHANGED allocated
       ELSE ipc' = "queue_num" /\ allocated' = TRUE /\ UNCHANGED panicked
    /\ UNCHANGED <<dev, cyclic, icmd, status, status_writes, mmio, intena>>
    /\ UNCHANGED <<gpulock, ringvars, devvars, isrvars, pc, kind, my_idx, fbvars, logvars>>

InitQueueNum ==
    /\ InitStep("queue_num", "queue_addr")
    /\ mmio' = Append(mmio, "QUEUE_NUM")
    /\ UNCHANGED <<dev, cyclic, icmd, status, status_writes, allocated, intena, panicked>>
    /\ UNCHANGED <<gpulock, ringvars, devvars, isrvars, pc, kind, my_idx, fbvars, logvars>>

InitQueueAddr ==
    /\ InitStep("queue_addr", "queue_ready")
    /\ mmio' = mmio \o <<"QUEUE_DESC", "DRIVER_DESC", "DEVICE_DESC">>
    /\ UNCHANGED <<dev, cyclic, icmd, status, status_writes, allocated, intena, panicked>>
    /\ UNCHANGED <<gpulock, ringvars, devvars, isrvars, pc, kind, my_idx, fbvars, logvars>>

InitQueueReady ==
    /\ InitStep("queue_ready", "driver_ok")
    /\ mmio' = Append(mmio, "QUEUE_READY")
    /\ UNCHANGED <<dev, cyclic, icmd, status, status_writes, allocated, intena, panicked>>
    /\ UNCHANGED <<gpulock, ringvars, devvars, isrvars, pc, kind, my_idx, fbvars, logvars>>

InitDriverOk ==
    /\ InitStep("driver_ok", "c_lock")
    /\ status' = StatusOr(status, "DRIVER_OK")
    /\ WriteStatus(status')
    /\ icmd' = 1
    /\ UNCHANGED <<dev, cyclic, allocated, intena, panicked>>
    /\ UNCHANGED <<gpulock, ringvars, devvars, isrvars, pc, kind, my_idx, fbvars, logvars>>

Handshake ==
    \/ InitIdentify \/ InitReset \/ InitAck \/ InitDriver \/ InitFeatures
    \/ InitFeaturesOk \/ InitReadback \/ InitQueueSel \/ InitQueueMax
    \/ InitAlloc \/ InitQueueNum \/ InitQueueAddr \/ InitQueueReady \/ InitDriverOk

(***************************************************************************)
(* bind_desc_and_fire / bind_desc_and_fire_us: the submission steps.       *)
(***************************************************************************)
\* a submission that writes desc[0] only
BindDescHeadOnly(req) ==
    /\ desc' = << [addr |-> req, len |-> "sizeof(req)", flags |-> "NEXT", next |-> 1], desc[2] >>
    /\ response' = response

\* desc[0] and desc[1] for a request at req, and the response slot reset
BindDesc(req) ==
    /\ desc' = << [addr |-> req, len |-> "sizeof(req)", flags |-> "NEXT", next |-> 1],
                  [addr |-> "response", len |-> "sizeof(uint64)", flags |-> "WRITE", next |-> 0] >>
    /\ response' = RESP_SENTINEL

\* the period of the ring cursors in an unbounded run: a multiple of NUM
\* larger than the number of requests that can be outstanding
IdxCycle == 1 * NUM

\* idx += 1 on a ring cursor
IdxNext(i) == IF cyclic THEN (i + 1) % IdxCycle ELSE i + 1

\* the record of the ring slots accessed, kept in bounded runs
Log(l, x) == IF cyclic THEN l ELSE Append(l, x)

\* a submission that indexes the available ring without wrapping
AvailSlotNoWrap(idx) == idx

\* the available-ring slot the next chain head goes to
AvailSlot(idx) == idx % NUM

\* avail->ring[avail->idx % NUM] = 0
RingWrite == avail_slots' = Log(avail_slots, AvailSlot(avail_idx))

\* avail->idx += 1
IdxInc == avail_idx' = IdxNext(avail_idx)

(***************************************************************************)
(* The five bring-up commands: create_device_fb, attach_fb,                *)
(* config_scanout, transfer_fb, flush_resource, each ending in             *)
(* bind_desc_and_fire.                                                     *)
(***************************************************************************)
CmdStep(from, to) == ipc = from /\ panicked = "none" /\ isr_pc = "idle" /\ ipc' = to

CmdLock ==
    /\ CmdStep("c_lock", "c_desc")
    /\ gpulock = "none"
    /\ gpulock' = "init"
    /\ request_inflight' = 1
    /\ UNCHANGED <<dev, cyclic, icmd, status, status_writes, mmio, allocated, intena, panicked>>
    /\ UNCHANGED <<response, desc, avail_idx, used, used_idx>>
    /\ UNCHANGED <<devvars, isrvars, pc, kind, my_idx, fbvars, logvars>>

CmdDesc ==
    /\ CmdStep("c_desc", "c_ring")
    /\ BindDesc(BringUpCmds[icmd])
    /\ UNCHANGED <<dev, cyclic, icmd, status, status_writes, mmio, allocated, intena, panicked>>
    /\ UNCHANGED <<gpulock, request_inflight, avail_idx, used, used_idx>>
    /\ UNCHANGED <<devvars, isrvars, pc, kind, my_idx, fbvars, logvars>>

CmdRing ==
    /\ CmdStep("c_ring", "c_idx")
    /\ RingWrite
    /\ UNCHANGED <<dev, cyclic, icmd, status, status_writes, mmio, allocated, intena, panicked>>
    /\ UNCHANGED <<gpulock, ringvars, devvars, isrvars, pc, kind, my_idx, fbvars>>
    /\ UNCHANGED <<used_slots, dev_slots>>

CmdIdx ==
    /\ CmdStep("c_idx", "c_notify")
    /\ IdxInc
    /\ UNCHANGED <<dev, cyclic, icmd, status, status_writes, mmio, allocated, intena, panicked>>
    /\ UNCHANGED <<gpulock, request_inflight, response, desc, used, used_idx>>
    /\ UNCHANGED <<devvars, isrvars, pc, kind, my_idx, fbvars, logvars>>

CmdNotify ==
    /\ CmdStep("c_notify", "c_release")
    /\ UNCHANGED <<dev, cyclic, icmd, status, status_writes, mmio, allocated, intena, panicked>>
    /\ UNCHANGED <<gpulock, ringvars, devvars, isrvars, pc, kind, my_idx, fbvars, logvars>>

\* a command that keeps gpulock through its spin
CmdReleaseKeeps ==
    /\ CmdStep("c_release", "c_intr_on")
    /\ UNCHANGED gpulock
    /\ UNCHANGED <<dev, cyclic, icmd, status, status_writes, mmio, allocated, intena, panicked>>
    /\ UNCHANGED <<ringvars, devvars, isrvars, pc, kind, my_idx, fbvars, logvars>>

CmdRelease ==
    /\ CmdStep("c_release", "c_intr_on")
    /\ gpulock' = "none"
    /\ UNCHANGED <<dev, cyclic, icmd, status, status_writes, mmio, allocated, intena, panicked>>
    /\ UNCHANGED <<ringvars, devvars, isrvars, pc, kind, my_idx, fbvars, logvars>>

CmdIntrOn ==
    /\ CmdStep("c_intr_on", "c_spin")
    /\ intena' = TRUE
    /\ UNCHANGED <<dev, cyclic, icmd, status, status_writes, mmio, allocated, panicked>>
    /\ UNCHANGED <<gpulock, ringvars, devvars, isrvars, pc, kind, my_idx, fbvars, logvars>>

\* while (request_inflight == 1): the loop is left when the flag is not 1
CmdSpin ==
    /\ CmdStep("c_spin", "c_intr_off")
    /\ request_inflight # 1
    /\ UNCHANGED <<dev, cyclic, icmd, status, status_writes, mmio, allocated, intena, panicked>>
    /\ UNCHANGED <<gpulock, ringvars, devvars, isrvars, pc, kind, my_idx, fbvars, logvars>>

\* intr_off(), the return, and the call of the next command
CmdIntrOff ==
    /\ ipc = "c_intr_off" /\ panicked = "none" /\ isr_pc = "idle"
    /\ intena' = FALSE
    /\ IF icmd < Len(BringUpCmds)
       THEN icmd' = icmd + 1 /\ ipc' = "c_lock"
       ELSE icmd' = icmd /\ ipc' = "done"
    /\ UNCHANGED <<dev, cyclic, status, status_writes, mmio, allocated, panicked>>
    /\ UNCHANGED <<gpulock, ringvars, devvars, isrvars, pc, kind, my_idx, fbvars, logvars>>

BringUp ==
    \/ CmdLock \/ CmdDesc \/ CmdRing \/ CmdIdx \/ CmdNotify
    \/ CmdRelease \/ CmdIntrOn \/ CmdSpin \/ CmdIntrOff

(***************************************************************************)
(* The device: it serves published requests in order and raises            *)
(* interrupts.                                                             *)
(***************************************************************************)
DeviceLive == Len(status_writes) > 0 /\ "DRIVER_OK" \in status_writes[Len(status_writes)]

\* the used-ring slot the device fills next
DevSlot(idx) == idx % NUM

\* the device completes the oldest published request: it writes the response
\* through desc[1], the used-ring entry and used->idx, then interrupts
DevComplete ==
    /\ DeviceLive
    /\ used.idx # avail_idx
    /\ \E id \in {0, 1}, resp \in {VIRTIO_GPU_RESP_OK_NODATA, RESP_ERR} :
          /\ response' = IF desc[2].addr = "response" /\ desc[2].flags = "WRITE"
                         THEN resp ELSE response
          /\ used' = [idx |-> IdxNext(used.idx),
                      ring |-> [used.ring EXCEPT ![DevSlot(used.idx)] = id]]
    /\ dev_slots' = Log(dev_slots, DevSlot(used.idx))
    /\ intstatus' = intstatus \cup {"USED"}
    /\ UNCHANGED <<hsvars, panicked, gpulock, request_inflight, desc, avail_idx, used_idx>>
    /\ UNCHANGED <<cfgirqs, isrvars, pc, kind, my_idx, fbvars, avail_slots, used_slots>>

\* the device signals a configuration change (bit 1 of the interrupt status)
DevConfigChange ==
    /\ DeviceLive
    /\ cfgirqs < MaxCfgIrq
    /\ "CONFIG" \notin intstatus
    /\ intstatus' = intstatus \cup {"CONFIG"}
    /\ cfgirqs' = cfgirqs + 1
    /\ UNCHANGED <<hsvars, panicked, gpulock, ringvars, isrvars, pc, kind, my_idx, fbvars, logvars>>

Device == DevComplete \/ DevConfigChange

(***************************************************************************)
(* virtiogpu_isr.                                                          *)
(***************************************************************************)
\* the handler can be entered: during bring-up only while the boot hart has
\* interrupts enabled, afterwards on any hart
IntrDeliverable == ipc = "done" \/ intena

\* the used-ring slot the handler reads
UsedSlot(idx) == idx % NUM

\* the id check of the drain loop
IdFault(id) == id # 0

\* a handler that only rejects the untouched sentinel
RespFaultSentinelOnly(r) == r = RESP_SENTINEL

\* the response check of the drain loop
RespFault(r) == r # VIRTIO_GPU_RESP_OK_NODATA

\* a drain loop that advances its cursor by two
UsedIdxSkip(i) == i + 2

\* used_idx += 1
UsedIdxInc(i) == IdxNext(i)

\* the processes a wakeup(&request_inflight) makes runnable
Sleepers == {p \in Pids : pc[p] \in {"sleep1", "sleep2"}}

IsrEnter ==
    /\ isr_pc = "idle"
    /\ intstatus # {}
    /\ IntrDeliverable
    /\ isr_pc' = "acquire"
    /\ isr_n' = 0
    /\ UNCHANGED <<hsvars, panicked, gpulock, ringvars, devvars, pc, kind, my_idx, fbvars, logvars>>

\* acquire(&gpulock) and the interrupt acknowledge
IsrAcquire ==
    /\ isr_pc = "acquire"
    /\ gpulock = "none"
    /\ gpulock' = "isr"
    /\ intstatus' = {}
    /\ isr_pc' = "drain"
    /\ UNCHANGED <<hsvars, panicked, ringvars, cfgirqs, isr_n, pc, kind, my_idx, fbvars, logvars>>

\* one iteration of the drain loop
IsrDrain ==
    /\ isr_pc = "drain"
    /\ used_idx # used.idx
    /\ used_slots' = Log(used_slots, UsedSlot(used_idx))
    /\ IF IdFault(used.ring[UsedSlot(used_idx)])
       THEN /\ Panic("virtiogpu isr did not get 0")
            /\ isr_pc' = "panic"
            /\ UNCHANGED <<used_idx, isr_n>>
       ELSE IF RespFault(response)
       THEN /\ Panic("did not get response OK_NO_DATA")
            /\ isr_pc' = "panic"
            /\ UNCHANGED <<used_idx, isr_n>>
       ELSE /\ used_idx' = UsedIdxInc(used_idx)
            /\ isr_n' = isr_n + 1
            /\ UNCHANGED <<isr_pc, panicked>>
    /\ UNCHANGED <<hsvars, gpulock, request_inflight, response, desc, avail_idx, used>>
    /\ UNCHANGED <<devvars, pc, kind, my_idx, fbvars, avail_slots, dev_slots>>

\* the loop is left; request_inflight = 0; release(&gpulock)
IsrClear ==
    /\ isr_pc = "drain"
    /\ used_idx = used.idx
    /\ request_inflight' = 0
    /\ gpulock' = "none"
    /\ isr_pc' = "wakeup"
    /\ UNCHANGED <<hsvars, panicked, response, desc, avail_idx, used, used_idx>>
    /\ UNCHANGED <<devvars, isr_n, pc, kind, my_idx, fbvars, logvars>>

\* wakeup(&request_inflight) and the return
IsrWakeup ==
    /\ isr_pc = "wakeup"
    /\ pc' = [p \in Pids |-> IF pc[p] = "sleep1" THEN "wake1"
                             ELSE IF pc[p] = "sleep2" THEN "wake2" ELSE pc[p]]
    /\ isr_pc' = "idle"
    /\ isr_n' = 0
    /\ UNCHANGED <<hsvars, panicked, gpulock, ringvars, devvars, kind, my_idx, fbvars, logvars>>

Isr == IsrEnter \/ IsrAcquire \/ IsrDrain \/ IsrClear \/ IsrWakeup

(***************************************************************************)
(* transfer_fb_us / flush_resource_us with bind_desc_and_fire_us and       *)
(* sleep_until_dormant.  Processes exist once init_virtiogpu has returned. *)
(***************************************************************************)
\* calls that have been started and have not published yet
Starting == {p \in Pids : pc[p] \in {"sud1", "sleep1", "wake1", "desc", "ring", "idx"}}

\* a call that only the owner of the framebuffer may make
UsCallOwnerOnly(p) ==
    /\ locked_pid = p
    /\ ipc = "done"
    /\ pc[p] = "idle"
    /\ cyclic \/ avail_idx + Cardinality(Starting) < MaxSubmit
    /\ gpulock = "none"
    /\ gpulock' = Holder(p)
    /\ \E k \in {"transreq", "flushreq"} : kind' = [kind EXCEPT ![p] = k]
    /\ pc' = [pc EXCEPT ![p] = "sud1"]
    /\ UNCHANGED my_idx
    /\ UNCHANGED <<hsvars, panicked, ringvars, devvars, isrvars, fbvars, logvars>>

\* acquire(&gpulock) at the head of the call
UsCall(p) ==
    /\ ipc = "done"
    /\ pc[p] = "idle"
    /\ cyclic \/ avail_idx + Cardinality(Starting) < MaxSubmit
    /\ gpulock = "none"
    /\ gpulock' = Holder(p)
    /\ \E k \in {"transreq", "flushreq"} : kind' = [kind EXCEPT ![p] = k]
    /\ pc' = [pc EXCEPT ![p] = "sud1"]
    /\ UNCHANGED my_idx
    /\ UNCHANGED <<hsvars, panicked, ringvars, devvars, isrvars, fbvars, logvars>>

\* a sleep_until_dormant that never waits
DormantAlways(inflight) == TRUE

\* sleep_until_dormant: the loop condition
Dormant(inflight) == inflight # 1

\* sleep(&request_inflight, &gpulock): the lock is released and the process
\* sleeps until a wakeup on the channel
UsSleep(p) ==
    /\ pc[p] \in {"sud1", "sud2"}
    /\ ~Dormant(request_inflight)
    /\ gpulock' = "none"
    /\ pc' = [pc EXCEPT ![p] = IF pc[p] = "sud1" THEN "sleep1" ELSE "sleep2"]
    /\ UNCHANGED <<hsvars, panicked, ringvars, devvars, isrvars, kind, my_idx, fbvars, logvars>>

\* sleep() returns: the woken process takes gpulock again
UsReacquire(p) ==
    /\ pc[p] \in {"wake1", "wake2"}
    /\ gpulock = "none"
    /\ gpulock' = Holder(p)
    /\ pc' = [pc EXCEPT ![p] = IF pc[p] = "wake1" THEN "sud1" ELSE "sud2"]
    /\ UNCHANGED <<hsvars, panicked, ringvars, devvars, isrvars, kind, my_idx, fbvars, logvars>>

\* the first sleep_until_dormant returns; request_inflight = 1; the request
\* structure is filled
UsBegin(p) ==
    /\ pc[p] = "sud1"
    /\ Dormant(request_inflight)
    /\ request_inflight' = 1
    /\ pc' = [pc EXCEPT ![p] = "desc"]
    /\ UNCHANGED <<hsvars, panicked, gpulock, response, desc, avail_idx, used, used_idx>>
    /\ UNCHANGED <<devvars, isrvars, kind, my_idx, fbvars, logvars>>

UsDesc(p) ==
    /\ pc[p] = "desc"
    /\ BindDesc(kind[p])
    /\ pc' = [pc EXCEPT ![p] = "ring"]
    /\ UNCHANGED <<hsvars, panicked, gpulock, request_inflight, avail_idx, used, used_idx>>
    /\ UNCHANGED <<devvars, isrvars, kind, my_idx, fbvars, logvars>>

UsRing(p) ==
    /\ pc[p] = "ring"
    /\ RingWrite
    /\ pc' = [pc EXCEPT ![p] = "idx"]
    /\ UNCHANGED <<hsvars, panicked, gpulock, ringvars, devvars, isrvars, kind, my_idx, fbvars>>
    /\ UNCHANGED <<used_slots, dev_slots>>

UsIdx(p) ==
    /\ pc[p] = "idx"
    /\ IdxInc
    /\ my_idx' = [my_idx EXCEPT ![p] = IF cyclic THEN 0 ELSE avail_idx']
    /\ pc' = [pc EXCEPT ![p] = "notify"]
    /\ UNCHANGED <<hsvars, panicked, gpulock, request_inflight, response, desc, used, used_idx>>
    /\ UNCHANGED <<devvars, isrvars, kind, fbvars, logvars>>

UsNotify(p) ==
    /\ pc[p] = "notify"
    /\ pc' = [pc EXCEPT ![p] = "sud2"]
    /\ UNCHANGED <<hsvars, panicked, gpulock, ringvars, devvars, isrvars, kind, my_idx, fbvars, logvars>>

\* the second sleep_until_dormant returns; release(&gpulock); return
UsReturn(p) ==
    /\ pc[p] = "sud2"
    /\ Dormant(request_inflight)
    /\ gpulock' = "none"
    /\ pc' = [pc EXCEPT ![p] = "idle"]
    /\ kind' = [kind EXCEPT ![p] = "none"]
    /\ my_idx' = [my_idx EXCEPT ![p] = 0]
    /\ UNCHANGED <<hsvars, panicked, ringvars, devvars, isrvars, fbvars, logvars>>

Us(p) ==
    \/ UsCall(p) \/ UsSleep(p) \/ UsReacquire(p) \/ UsBegin(p) \/ UsDesc(p)
    \/ UsRing(p) \/ UsIdx(p) \/ UsNotify(p) \/ UsReturn(p)

(***************************************************************************)
(* acquire_fb / release_fb / holds_fb.                                     *)
(***************************************************************************)
\* an acquire_fb that takes the framebuffer from another holder
AcquireFbSteal(lp, this_pid) == <<1, this_pid>>

\* an acquire_fb without the "already owned" branch
AcquireFbNoReentry(lp, this_pid) ==
    IF lp = NOT_LOCKED THEN <<1, this_pid>> ELSE <<0, lp>>

\* acquire_fb: <<has_acquired, new locked_pid>>
AcquireFb(lp, this_pid) ==
    IF lp = this_pid THEN <<1, lp>>
    ELSE IF lp = NOT_LOCKED THEN <<1, this_pid>>
    ELSE <<0, lp>>

\* a release_fb that leaves the owner in place
ReleaseFbKeeps(lp, this_pid) == lp

\* release_fb: new locked_pid
ReleaseFb(lp, this_pid) == IF lp = this_pid THEN NOT_LOCKED ELSE lp

\* holds_fb: has_fb
HoldsFb(lp, this_pid) == IF lp = this_pid THEN 1 ELSE 0

\* progress of the scenario acquire(A) granted, acquire(B) denied, release(A),
\* acquire(B) granted, the calls following one another; -1 when a call of the
\* scenario answered differently
ScenNext(s, p, op, r) ==
    IF op = "acquire_fb" /\ p = PidA /\ r = 1 THEN 1
    ELSE IF op = "acquire_fb" /\ p = PidB /\ s \in {1, 2} THEN (IF r = 0 THEN 2 ELSE -1)
    ELSE IF op = "release_fb" /\ p = PidA /\ s = 2 THEN 3
    ELSE IF op = "acquire_fb" /\ p = PidB /\ s = 3 THEN (IF r = 1 THEN 4 ELSE -1)
    ELSE IF s = -1 THEN -1
    ELSE 0

\* get_current_pid() returned 0: the call panics
NullProcess(this_pid) == this_pid = 0

\* a framebuffer call that waits for the request in flight
FbCallWhenDormant(p) ==
    /\ request_inflight # 1
    /\ ipc = "done"
    /\ pc[p] = "idle"
    /\ ~NullProcess(p)
    /\ gpulock = "none"
    /\ gpulock' = Holder(p)
    /\ \E op \in {"acquire_fb", "release_fb", "holds_fb"} : pc' = [pc EXCEPT ![p] = op]
    /\ UNCHANGED <<hsvars, panicked, ringvars, devvars, isrvars, kind, my_idx, fbvars, logvars>>

\* get_current_pid() and acquire(&gpulock)
FbCall(p) ==
    /\ ipc = "done"
    /\ pc[p] = "idle"
    /\ ~NullProcess(p)
    /\ gpulock = "none"
    /\ gpulock' = Holder(p)
    /\ \E op \in {"acquire_fb", "release_fb", "holds_fb"} : pc' = [pc EXCEPT ![p] = op]
    /\ UNCHANGED <<hsvars, panicked, ringvars, devvars, isrvars, kind, my_idx, fbvars, logvars>>

AcquireFbBody(p) ==
    /\ pc[p] = "acquire_fb"
    /\ LET res == AcquireFb(locked_pid, p) IN
          /\ locked_pid' = res[2]
          /\ pc' = [pc EXCEPT ![p] = IF res[1] = 1 THEN "acquire_ret1" ELSE "acquire_ret0"]
          /\ grants' = [grants EXCEPT ![p] = IF res[1] = 1 THEN (IF @ = 0 THEN 1 ELSE 2) ELSE 0]
          /\ scen' = ScenNext(scen, p, "acquire_fb", res[1])
    /\ gpulock' = "none"
    /\ UNCHANGED <<hsvars, panicked, ringvars, devvars, isrvars, kind, my_idx, logvars>>

ReleaseFbBody(p) ==
    /\ pc[p] = "release_fb"
    /\ locked_pid' = ReleaseFb(locked_pid, p)
    /\ pc' = [pc EXCEPT ![p] = "release_ret"]
    /\ grants' = [grants EXCEPT ![p] = 0]
    /\ scen' = ScenNext(scen, p, "release_fb", 0)
    /\ gpulock' = "none"
    /\ UNCHANGED <<hsvars, panicked, ringvars, devvars, isrvars, kind, my_idx, logvars>>

HoldsFbBody(p) ==
    /\ pc[p] = "holds_fb"
    /\ pc' = [pc EXCEPT ![p] = IF HoldsFb(locked_pid, p) = 1 THEN "holds_ret1" ELSE "holds_ret0"]
    /\ gpulock' = "none"
    /\ UNCHANGED <<hsvars, panicked, ringvars, devvars, isrvars, kind, my_idx, fbvars, logvars>>

FbReturn(p) ==
    /\ pc[p] \in {"acquire_ret0", "acquire_ret1", "release_ret", "holds_ret0", "holds_ret1"}
    /\ pc' = [pc EXCEPT ![p] = "idle"]
    /\ UNCHANGED <<hsvars, panicked, gpulock, ringvars, devvars, isrvars, kind, my_idx, fbvars, logvars>>

Fb(p) == FbCall(p) \/ AcquireFbBody(p) \/ ReleaseFbBody(p) \/ HoldsFbBody(p) \/ FbReturn(p)

(***************************************************************************)
(* The virtqueue engine from power-on: handshake, bring-up, then the       *)
(* processes' transfer and flush calls, with the device and the handler.   *)
(***************************************************************************)
Next ==
    \/ Handshake
    \/ BringUp
    \/ Device
    \/ Isr
    \/ \E p \in Pids : Us(p)

Spec == Init /\ [][Next]_vars

(***************************************************************************)
(* The framebuffer ownership calls, from the state in which a fault-free   *)
(* bring-up leaves the driver; the device may signal a configuration       *)
(* change, so the handler competes for gpulock.                            *)
(***************************************************************************)
AllStatus == {"ACKNOWLEDGE", "DRIVER", "FEATURES_OK", "DRIVER_OK"}

\* the values init_virtiogpu writes to VIRTIO_MMIO_STATUS, in program order
HandshakeStatus ==
    << {}, {"ACKNOWLEDGE"}, {"ACKNOWLEDGE", "DRIVER"},
       {"ACKNOWLEDGE", "DRIVER", "FEATURES_OK"}, AllStatus >>

\* the registers init_virtiogpu writes, in program order
HandshakeWrites ==
    << "STATUS", "STATUS", "STATUS", "DRIVER_FEATURES", "STATUS", "QUEUE_SEL",
       "QUEUE_NUM", "QUEUE_DESC", "DRIVER_DESC", "DEVICE_DESC", "QUEUE_READY",
       "STATUS" >>

BroughtUp(unbounded) ==
    /\ cyclic = unbounded
    /\ dev = [magic_ok |-> TRUE, version |-> VERSION_EXPECTED, device_id |-> DEVICE_ID_GPU,
              features_ok |-> TRUE, queue_ready |-> FALSE, queue_max |-> NUM,
              kalloc_ok |-> TRUE]
    /\ ipc = "done"
    /\ icmd = Len(BringUpCmds)
    /\ status = AllStatus
    /\ status_writes = HandshakeStatus
    /\ mmio = HandshakeWrites
    /\ allocated = TRUE
    /\ intena = FALSE
    /\ panicked = "none"
    /\ gpulock = "none"
    /\ request_inflight = 0
    /\ response = VIRTIO_GPU_RESP_OK_NODATA
    /\ desc = << [addr |-> "flushreq", len |-> "sizeof(req)", flags |-> "NEXT", next |-> 1],
                 [addr |-> "response", len |-> "sizeof(uint64)", flags |-> "WRITE", next |-> 0] >>
    /\ avail_idx = Len(BringUpCmds)
    /\ used = [idx |-> Len(BringUpCmds), ring |-> [i \in 0..(NUM - 1) |-> 0]]
    /\ used_idx = Len(BringUpCmds)
    /\ intstatus = {}
    /\ cfgirqs = 0
    /\ isr_pc = "idle"
    /\ isr_n = 0
    /\ pc = [p \in Pids |-> "idle"]
    /\ kind = [p \in Pids |-> "none"]
    /\ my_idx = [p \in Pids |-> 0]
    /\ locked_pid = NOT_LOCKED
    /\ grants = [p \in Pids |-> 0]
    /\ scen = 0
    /\ avail_slots = (IF unbounded THEN <<>> ELSE [k \in 1..Len(BringUpCmds) |-> k - 1])
    /\ used_slots = (IF unbounded THEN <<>> ELSE [k \in 1..Len(BringUpCmds) |-> k - 1])
    /\ dev_slots = (IF unbounded THEN <<>> ELSE [k \in 1..Len(BringUpCmds) |-> k - 1])

\* the state in which a fault-free bring-up leaves the driver
AfterBringUp == BroughtUp(FALSE)

NextFb ==
    \/ \E p \in Pids : Fb(p)
    \/ DevConfigChange
    \/ IsrEnter
    \/ IsrAcquire
    \/ IsrClear
    \/ IsrWakeup

SpecFb == AfterBringUp /\ [][NextFb]_vars

(***************************************************************************)
(* The processes' calls of both kinds together, after bring-up: transfer   *)
(* and flush calls run while the framebuffer changes owner.                *)
(***************************************************************************)
NextAll ==
    \/ Device
    \/ Isr
    \/ \E p \in Pids : Us(p)
    \/ \E p \in Pids : Fb(p)

SpecAll == AfterBringUp /\ [][NextAll]_vars

(***************************************************************************)
(* Unbounded runs of the transfer and flush calls after bring-up.  The     *)
(* device serves every published request and interrupts; the handler, once *)
(* entered, runs to its end; a process inside a call keeps being           *)
(* scheduled, and a process that keeps finding gpulock free now and then   *)
(* gets it.                                                                *)
(***************************************************************************)
NextLive ==
    \/ Device
    \/ Isr
    \/ \E p \in Pids : Us(p)

\* the steps of a call once it has been made
UsRun(p) ==
    \/ UsSleep(p) \/ UsReacquire(p) \/ UsBegin(p) \/ UsDesc(p)
    \/ UsRing(p) \/ UsIdx(p) \/ UsNotify(p) \/ UsReturn(p)

Fairness ==
    /\ WF_vars(DevComplete)
    /\ WF_vars(Isr)
    /\ \A p \in Pids : WF_vars(UsRun(p))
    /\ \A p \in Pids : SF_vars(UsReacquire(p))

SpecLive == BroughtUp(TRUE) /\ [][NextLive]_vars /\ Fairness

(***************************************************************************)
(* Properties.                                                             *)
(***************************************************************************)

\* C1: at most one request is outstanding device-wide: avail->idx - used_idx
\* is always 0 or 1, and when the handler has drained the completions of a
\* run (it still holds gpulock), used_idx equals avail->idx.
C1_SingleOutstanding ==
    /\ avail_idx - used_idx \in {0, 1}
    /\ (isr_pc = "drain" /\ isr_n > 0 /\ used_idx = used.idx) => used_idx = avail_idx

\* C2: request_inflight goes from 1 to 0 only in a handler run that consumed
\* the one completion of the one published request (exactly one entry drained,
\* nothing left outstanding), and the wakeup of that run leaves no process
\* sleeping on request_inflight.
C2_RoundTrip ==
    [][ /\ (request_inflight = 1 /\ request_inflight' = 0)
            => (isr_pc = "drain" /\ isr_n = 1 /\ used_idx = avail_idx)
        /\ (isr_pc = "wakeup" /\ isr_pc' = "idle") => Sleepers' = {}
      ]_vars

\* C3: a drain step of the handler that reads a used-ring entry whose id is not
\* 0, or reads a response other than VIRTIO_GPU_RESP_OK_NODATA, panics and
\* leaves request_inflight, used_idx and every sleeping process as they were;
\* once the handler has panicked, request_inflight and used_idx never change
\* again and no sleeper is woken.
C3_FaultPropagation ==
    [][ /\ ( /\ isr_pc = "drain"
             /\ used_slots' # used_slots
             /\ (used.ring[used_idx % NUM] # 0 \/ response # VIRTIO_GPU_RESP_OK_NODATA) )
            => ( /\ isr_pc' = "panic"
                 /\ panicked' # "none"
                 /\ request_inflight' = request_inflight
                 /\ used_idx' = used_idx
                 /\ pc' = pc )
        /\ isr_pc = "panic"
            => ( /\ isr_pc' = "panic"
                 /\ request_inflight' = request_inflight
                 /\ used_idx' = used_idx
                 /\ \A p \in Sleepers : pc'[p] = pc[p] )
      ]_vars

\* a process sleeps on an outstanding request while the handler has panicked
\* on an error response
C3_Witness ==
    /\ isr_pc = "panic"
    /\ panicked = "did not get response OK_NO_DATA"
    /\ request_inflight = 1
    /\ used_idx < avail_idx
    /\ \E p \in Pids : pc[p] = "sleep2"

\* a configuration-change interrupt cleared request_inflight during bring-up
\* and the next command was published over the unconsumed one
C1_TwoOutstanding == avail_idx - used_idx = 2

\* C4: a process whose last acquire_fb was granted and that has not called
\* release_fb since is the owner in locked_pid, so no two processes hold the
\* framebuffer at once; and an acquire_fb by a process while another pid owns
\* the framebuffer returns 0 and leaves locked_pid as it was.
C4_MutualExclusion ==
    /\ [](\A p \in Pids : grants[p] > 0 => locked_pid = p)
    /\ [][ \A p \in Pids :
              ( /\ pc[p] = "acquire_fb"
                /\ pc'[p] # pc[p]
                /\ locked_pid \notin {NOT_LOCKED, p} )
              => (pc'[p] = "acquire_ret0" /\ locked_pid' = locked_pid)
         ]_vars

\* the second process has been denied while the first one owns the framebuffer
C4_Witness ==
    /\ pc[PidB] = "acquire_ret0"
    /\ locked_pid = PidA
    /\ grants[PidA] > 0

C6_HandOff ==
    /\ [](scen # -1)
    /\ [][ \A p \in Pids :
              /\ (pc[p] = "release_fb" /\ pc'[p] # pc[p] /\ locked_pid = p)
                  => locked_pid' = NOT_LOCKED
              /\ (pc[p] = "acquire_fb" /\ pc'[p] # pc[p] /\ locked_pid = NOT_LOCKED)
                  => (pc'[p] = "acquire_ret1" /\ locked_pid' = p)
              /\ (pc[p] = "holds_fb" /\ pc'[p] # pc[p])
                  => ( /\ (pc'[p] = "holds_ret1") = (locked_pid = p)
                       /\ (pc'[p] = "holds_ret0") = (locked_pid # p)
                       /\ locked_pid' = locked_pid )
         ]_vars

\* the scenario has run to its end: pid 20 owns the framebuffer after pid 10
\* released it
C6_Witness ==
    /\ scen = 4
    /\ locked_pid = PidB
    /\ pc[PidB] = "acquire_ret1"

IsPrefix(s, t) == Len(s) <= Len(t) /\ \A i \in 1..Len(s) : s[i] = t[i]

Written(reg) == \E i \in 1..Len(mmio) : mmio[i] = reg

\* a device that answers the handshake as the virtio-mmio protocol prescribes
Conforming(d) ==
    /\ IdentityFault(d) = "none"
    /\ d.features_ok
    /\ ~d.queue_ready
    /\ d.queue_max >= NUM
    /\ d.kalloc_ok

C8_QueueReadyFault ==
    dev.queue_ready =>
        /\ Written("QUEUE_SEL") => panicked = "virtiogpu should not be ready yet"
        /\ ~allocated
        /\ \A r \in {"QUEUE_NUM", "QUEUE_DESC", "DRIVER_DESC", "DEVICE_DESC", "QUEUE_READY"} :
              ~Written(r)
        /\ ~DeviceLive
        /\ icmd = 0
        /\ avail_idx = 0
        /\ avail_slots = <<>>

\* the handshake has stopped on the queue-ready check
C8_Witness ==
    /\ dev.queue_ready
    /\ Written("QUEUE_SEL")
    /\ panicked = "virtiogpu should not be ready yet"
    /\ ~allocated

\* C9: every command is published after DRIVER_OK was written; during
\* bring-up the k-th published request is the k-th of create, attach,
\* scanout, transfer, flush; a bring-up command is prepared and published
\* only when the handler has consumed the completion of every earlier one,
\* and bring-up moves past its spin only with the command's completion
\* consumed and request_inflight clear; bring-up ends with exactly the five
\* commands published.
C9_BringUpCommands ==
    /\ avail_idx > 0 => DeviceLive
    /\ ipc \in {"c_ring", "c_idx", "c_notify", "c_release", "c_intr_on", "c_spin", "c_intr_off"}
          => desc[1].addr = BringUpCmds[icmd]
    /\ ipc \in {"c_lock", "c_desc", "c_ring", "c_idx"}
          => (avail_idx = icmd - 1 /\ used_idx = avail_idx)
    /\ ipc \in {"c_notify", "c_release", "c_intr_on", "c_spin"} => avail_idx = icmd
    /\ ipc = "c_intr_off" => (avail_idx = icmd /\ used_idx = avail_idx /\ request_inflight = 0)
    /\ ipc = "done" => (icmd = Len(BringUpCmds) /\ avail_idx >= Len(BringUpCmds))

\* C10: the k-th chain head goes to available-ring slot (k-1) mod NUM, the
\* device's k-th completion and the handler's k-th read use used-ring slot
\* (k-1) mod NUM, and every slot index is in 0..NUM-1, also past NUM
\* submissions.
C10_RingWrap ==
    /\ \A k \in 1..Len(avail_slots) :
          avail_slots[k] = (k - 1) % NUM /\ avail_slots[k] \in 0..(NUM - 1)
    /\ \A k \in 1..Len(used_slots) :
          used_slots[k] = (k - 1) % NUM /\ used_slots[k] \in 0..(NUM - 1)
    /\ \A k \in 1..Len(dev_slots) :
          dev_slots[k] = (k - 1) % NUM /\ dev_slots[k] \in 0..(NUM - 1)
    /\ Len(avail_slots) \in {avail_idx, avail_idx + 1}
    /\ Len(used_slots) \in {used_idx, used_idx + 1}

\* submission NUM+1 went to slot 0 again and its completion was consumed
C10_Witness ==
    /\ avail_idx = NUM + 1
    /\ used_idx = NUM + 1
    /\ avail_slots[NUM + 1] = 0
    /\ used_slots[NUM + 1] = 0
    /\ request_inflight = 0
    /\ panicked = "none"

\* C11: the driver's cursor never passes the device's: used_idx <= used->idx;
\* used_idx changes only in a drain step of the handler, by one, for an
\* entry the device has published; and the handler leaves its loop only with
\* used_idx = used->idx, so a run advances the cursor by the completions
\* published since the previous run ended.
C11_UsedCursor ==
    /\ [](used_idx <= used.idx)
    /\ [][ /\ used_idx' # used_idx
               => ( /\ isr_pc = "drain"
                    /\ used_idx # used.idx
                    /\ used_idx' = used_idx + 1
                    /\ isr_n' = isr_n + 1
                    /\ used' = used )
           /\ (isr_pc = "drain" /\ isr_pc' = "wakeup")
               => (used_idx = used.idx /\ used_idx' = used_idx)
           /\ (isr_pc = "acquire" /\ isr_pc' = "drain") => isr_n = 0
         ]_vars

\* a run of the handler has consumed a completion and left its loop
C11_Witness ==
    /\ isr_pc = "wakeup"
    /\ isr_n >= 1
    /\ used_idx = used.idx
    /\ used_idx > Len(BringUpCmds)

\* the positions at which a process holds gpulock
UsLocked == {"sud1", "desc", "ring", "idx", "notify", "sud2"}

FbLocked == {"acquire_fb", "release_fb", "holds_fb"}

\* C12: gpulock is held only inside an operation that is still running: by
\* the handler only in its drain loop and never after it has panicked, by a
\* bring-up command only between its acquire and its release, by a process
\* only inside the locked part of its call.
C12_LockDiscipline ==
    /\ gpulock = "isr" => isr_pc = "drain"
    /\ gpulock = "init" => ipc \in {"c_desc", "c_ring", "c_idx", "c_notify", "c_release"}
    /\ \A p \in Pids : gpulock = Holder(p) => pc[p] \in UsLocked \cup FbLocked
    /\ gpulock \in {"none", "isr", "init"} \cup {Holder(p) : p \in Pids}

\* the handler has panicked with gpulock held
C12_HeldAtPanic == isr_pc = "panic" /\ gpulock = "isr"

\* C13: a transfer_fb_us / flush_resource_us call can be made and each of its
\* steps can be taken whatever locked_pid is, and no step of such a call
\* changes locked_pid.
C13_NoOwnershipCheck ==
    /\ [](\A p \in Pids :
            /\ ( /\ ipc = "done" /\ pc[p] = "idle" /\ gpulock = "none"
                 /\ avail_idx + Cardinality(Starting) < MaxSubmit )
                => ENABLED UsCall(p)
            /\ pc[p] \in UsLocked => ENABLED Us(p))
    /\ [][ \A p \in Pids :
              (pc'[p] # pc[p] /\ (pc[p] \in UsLocked \/ pc'[p] \in UsLocked))
              => locked_pid' = locked_pid
         ]_vars

\* the second process is about to return from a call whose completion was
\* consumed, while the first process owns the framebuffer
C13_Witness ==
    /\ pc[PidB] = "sud2"
    /\ request_inflight = 0
    /\ my_idx[PidB] = used_idx
    /\ locked_pid = PidA

\* C14: a process holds gpulock from its acquire to its return except while
\* it sleeps; it sets request_inflight = 1 only on finding it 0 under the
\* lock, publishes with the flag set, and returns, releasing the lock, only
\* on finding it 0 again; on finding it 1 its only step is the sleep that
\* gives the lock up; no step of the call changes the interrupt enable.
C14_SleepWait ==
    /\ [](\A p \in Pids :
            /\ pc[p] \in UsLocked => gpulock = Holder(p)
            /\ pc[p] \in {"sleep1", "sleep2", "wake1", "wake2"} => gpulock # Holder(p))
    /\ [][ \A p \in Pids :
              /\ (pc[p] = "sud1" /\ pc'[p] = "desc")
                  => (request_inflight = 0 /\ request_inflight' = 1)
              /\ (pc[p] = "idx" /\ pc'[p] = "notify")
                  => (request_inflight = 1 /\ avail_idx' = avail_idx + 1)
              /\ (pc[p] = "sud2" /\ pc'[p] = "idle")
                  => (request_inflight = 0 /\ gpulock' = "none")
              /\ (pc[p] \in {"sud1", "sud2"} /\ request_inflight = 1 /\ pc'[p] # pc[p])
                  => (pc'[p] \in {"sleep1", "sleep2"} /\ gpulock' = "none")
              /\ (pc[p] \in UsLocked /\ pc'[p] \in UsLocked) => gpulock' = gpulock
              /\ pc'[p] # pc[p] => intena' = intena
         ]_vars

\* one process sleeps on its own request, the other sleeps before submitting
C14_Witness ==
    /\ pc[PidA] = "sleep2"
    /\ pc[PidB] = "sleep1"
    /\ request_inflight = 1
    /\ gpulock = "none"

\* C15: interrupts are enabled on the boot hart only in the spin of a
\* bring-up command and until its intr_off, and never while the command holds
\* gpulock, so the handler never runs in a context that holds the lock; the
\* spin is left only with request_inflight clear; interrupts are disabled
\* again when the command has returned.
C15_SpinWait ==
    /\ [](intena => (ipc \in {"c_spin", "c_intr_off"} /\ gpulock # "init"))
    /\ [](isr_pc # "idle" => gpulock # "init")
    /\ [](ipc = "done" => ~intena)
    /\ [][ /\ (ipc = "c_spin" /\ ipc' = "c_intr_off") => request_inflight = 0
           /\ (ipc = "c_notify" /\ ipc' # ipc) => (ipc' = "c_release" /\ gpulock = "init")
           /\ (ipc = "c_release" /\ ipc' # ipc) => (gpulock' = "none" /\ ~intena')
           /\ (ipc = "c_intr_off" /\ ipc' # ipc) => ~intena'
         ]_vars

\* the handler runs under gpulock while a bring-up command spins
C15_Witness ==
    /\ ipc = "c_spin"
    /\ intena
    /\ isr_pc = "drain"
    /\ gpulock = "isr"
    /\ request_inflight = 1

\* the two-descriptor chain of a request
Chain(req) ==
    /\ desc[1] = [addr |-> req, len |-> "sizeof(req)", flags |-> "NEXT", next |-> 1]
    /\ desc[2] = [addr |-> "response", len |-> "sizeof(uint64)", flags |-> "WRITE", next |-> 0]

\* C16: in both dispatchers the descriptor step writes the whole chain and
\* resets response to 42; the ring write comes after it and writes slot
\* avail->idx mod NUM; the increment of avail->idx comes after the ring write
\* and the notify after the increment; so avail->idx never covers a ring slot
\* that was not written, and the device completes only requests whose chain
\* is written.
C16_SubmissionOrder ==
    /\ [](Len(avail_slots) \in {avail_idx, avail_idx + 1})
    /\ [](ipc \in {"c_ring", "c_idx", "c_notify"} => Chain(BringUpCmds[icmd]))
    /\ [](\A p \in Pids : pc[p] \in {"ring", "idx", "notify"} => Chain(kind[p]))
    /\ [](ipc = "c_idx" \/ (\E p \in Pids : pc[p] = "idx")
            => (Len(avail_slots) = avail_idx + 1 /\ avail_slots[avail_idx + 1] = avail_idx % NUM))
    /\ [](ipc = "c_notify" \/ (\E p \in Pids : pc[p] = "notify")
            => (Len(avail_slots) = avail_idx /\ avail_idx > 0))
    /\ [][ /\ desc' # desc
               => ( /\ response' = RESP_SENTINEL
                    /\ avail_slots' = avail_slots /\ avail_idx' = avail_idx
                    /\ \/ (ipc = "c_desc" /\ ipc' = "c_ring")
                       \/ \E p \in Pids : pc[p] = "desc" /\ pc'[p] = "ring" )
           /\ avail_slots' # avail_slots
               => ( /\ avail_idx' = avail_idx /\ desc' = desc
                    /\ \/ (ipc = "c_ring" /\ ipc' = "c_idx")
                       \/ \E p \in Pids : pc[p] = "ring" /\ pc'[p] = "idx" )
           /\ avail_idx' # avail_idx
               => ( /\ avail_slots' = avail_slots /\ desc' = desc
                    /\ \/ (ipc = "c_idx" /\ ipc' = "c_notify")
                       \/ \E p \in Pids : pc[p] = "idx" /\ pc'[p] = "notify" )
           /\ used' # used
               => ( /\ Len(avail_slots) > used.idx
                    /\ \E r \in {"createreq", "attachreq", "scanoutreq", "transreq", "flushreq"} :
                          Chain(r) )
         ]_vars

\* a process has published a request past the first turn of the ring and is
\* about to notify the device
C16_Witness ==
    /\ pc[PidA] = "notify"
    /\ Chain(kind[PidA])
    /\ response = RESP_SENTINEL
    /\ avail_idx = NUM + 1
    /\ avail_slots[avail_idx] = 0

\* C17: a framebuffer call can be made and its body can run whether or not a
\* request is in flight, and its steps leave the descriptors, avail->idx,
\* used_idx, request_inflight and response unchanged; the steps of holds_fb
\* leave locked_pid unchanged too.
C17_FbFrame ==
    /\ [](\A p \in Pids :
            /\ (ipc = "done" /\ pc[p] = "idle" /\ gpulock = "none" /\ ~NullProcess(p))
                => ENABLED FbCall(p)
            /\ pc[p] \in FbLocked => (gpulock = Holder(p) /\ ENABLED Fb(p)))
    /\ [][ \A p \in Pids :
              /\ ( /\ pc'[p] # pc[p]
                   /\ \/ pc[p] \in FbLocked \/ pc'[p] \in FbLocked
                      \/ pc[p] \in {"acquire_ret0", "acquire_ret1", "release_ret", "holds_ret0", "holds_ret1"} )
                  => ( /\ desc' = desc /\ avail_idx' = avail_idx /\ used_idx' = used_idx
                       /\ request_inflight' = request_inflight /\ response' = response
                       /\ avail_slots' = avail_slots )
              /\ (pc'[p] # pc[p] /\ (pc[p] = "holds_fb" \/ pc'[p] = "holds_fb"))
                  => locked_pid' = locked_pid
         ]_vars

\* the first process was granted the framebuffer while the second one's
\* request is in flight
C17_Witness ==
    /\ pc[PidA] = "acquire_ret1"
    /\ pc[PidB] = "sleep2"
    /\ request_inflight = 1
    /\ used_idx # avail_idx

\* C18: a run of the handler that drained no used-ring entry leaves
\* request_inflight as it was and wakes no process.
C18_NoCompletionNoClear ==
    [][ /\ (isr_pc = "drain" /\ isr_pc' = "wakeup" /\ isr_n = 0)
            => request_inflight' = request_inflight
        /\ (isr_pc = "wakeup" /\ isr_pc' = "idle" /\ isr_n = 0) => pc' = pc
      ]_vars

\* C19: a transfer_fb_us / flush_resource_us call returns only when the
\* handler's cursor has reached the avail->idx its own submission produced.
C19_OwnCompletion ==
    [][ \A p \in Pids : (pc[p] = "sud2" /\ pc'[p] = "idle") => used_idx >= my_idx[p] ]_vars

\* C20: in an unbounded run in which nothing panics, every transfer_fb_us or
\* flush_resource_us call that was made returns, whatever the other
\* processes keep calling.
C20_EveryCallReturns ==
    \A p \in Pids : [](panicked = "none") => ((pc[p] # "idle") ~> (pc[p] = "idle"))

\* C21: every step in which the driver writes memory the device reads or
\* writes for a request (the fill of a request structure after
\* request_inflight = 1, and the write of desc[0], desc[1] and response), in a
\* bring-up command or in a process's call, is taken only when no request is
\* outstanding: used_idx = avail->idx.
C21_NoWriteWhileOutstanding ==
    [][ ( \/ (ipc = "c_lock" /\ ipc' = "c_desc")
          \/ (ipc = "c_desc" /\ ipc' = "c_ring")
          \/ \E p \in Pids : \/ (pc[p] = "sud1" /\ pc'[p] = "desc")
                             \/ (pc[p] = "desc" /\ pc'[p] = "ring") )
        => used_idx = avail_idx
      ]_vars

====
